---- MODULE Spec2Model ----
(***************************************************************************)
(* GitHunter (GitHunterPage): a React page that generates random candidate *)
(* usernames and polls the GitHub users endpoint for each, one hunt loop   *)
(* (huntUsernames) per press of "Start Hunting".                           *)
(*                                                                         *)
(* JavaScript runs every continuation to completion, so one action is one  *)
(* event handler or one continuation of a hunt loop from the await that    *)
(* resumed it up to the next await.  A hunt loop is an async closure: it   *)
(* keeps the isThrottled, excludeNumbers and specificNumbersToExclude of   *)
(* the render in which it was started, while the setters, the functional   *)
(* updates and abortControllerRef.current act on the live state.           *)
(*                                                                         *)
(* Strings the code computes with (the length input, the exclusion input,  *)
(* usernames) are sequences of one-character strings.                      *)
(***************************************************************************)
EXTENDS Integers, Sequences, FiniteSets, TLC

\* ---------------------------------------------------------------- bounds

\* Hunts started in one behaviour (each start creates one loop and one controller).
MaxStarts == 3
\* Remote checks issued in one behaviour, over all hunts.
MaxChecks == 3
\* Math.random() is sampled at k / RandomGrain, k in 0 .. RandomGrain - 1.
RandomGrain == 12
\* Events the log holds before the handlers that only log stop being pressed.
MaxLog == 3

\* ------------------------------------------------------ program constants

MAX_USERNAME_LENGTH == 39
USER_INPUT_MIN_LENGTH == 3
ThrottlePauseMs == 60000
ErrorDelayMs == 5000
RequestDelayMs == 1500

Letters ==
  << "a", "b", "c", "d", "e", "f", "g", "h", "i", "j", "k", "l", "m",
     "n", "o", "p", "q", "r", "s", "t", "u", "v", "w", "x", "y", "z" >>

Digits == << "0", "1", "2", "3", "4", "5", "6", "7", "8", "9" >>

ERROR_NO_CHARS ==
  << "E", "R", "R", "O", "R", "_", "N", "O", "_", "C", "H", "A", "R", "S" >>

\* A JavaScript number as parseInt returns it: NaN, or an integer.
NaN == [ isNaN |-> TRUE, value |-> 0 ]
Number(n) == [ isNaN |-> FALSE, value |-> n ]
isNaN(x) == x.isNaN
\* x < n and x > n are false when x is NaN.
Less(x, n) == ~x.isNaN /\ x.value < n
Greater(x, n) == ~x.isNaN /\ x.value > n

\* ------------------------------------------------------- string helpers

Range(s) == { s[i] : i \in 1 .. Len(s) }

IsDigit(c) == c \in Range(Digits)

DigitValue(c) == (CHOOSE i \in 1 .. 10 : Digits[i] = c) - 1

\* The longest prefix of s made of digits.
RECURSIVE DigitPrefix(_)
DigitPrefix(s) ==
  IF s = << >> \/ ~IsDigit(Head(s)) THEN << >>
  ELSE << Head(s) >> \o DigitPrefix(Tail(s))

RECURSIVE DecimalValue(_, _)
DecimalValue(acc, s) ==
  IF s = << >> THEN acc ELSE DecimalValue(acc * 10 + DigitValue(Head(s)), Tail(s))

\* parseInt(s), radix 10: an optional sign, then the longest run of digits;
\* what follows the digits is ignored, and no digit at all gives NaN.
ParseInt(s) ==
  LET signed == s /= << >> /\ Head(s) \in { "-", "+" }
      body == IF signed THEN Tail(s) ELSE s
      digits == DigitPrefix(body)
  IN  IF digits = << >> THEN NaN
      ELSE IF signed /\ Head(s) = "-" THEN Number(0 - DecimalValue(0, digits))
      ELSE Number(DecimalValue(0, digits))

\* s.split(','): the pieces between commas, empty pieces kept.
RECURSIVE Split(_)
Split(s) ==
  IF \A i \in 1 .. Len(s) : s[i] /= "," THEN << s >>
  ELSE LET k == CHOOSE i \in 1 .. Len(s) :
                    s[i] = "," /\ \A j \in 1 .. i - 1 : s[j] /= ","
       IN  << SubSeq(s, 1, k - 1) >> \o Split(SubSeq(s, k + 1, Len(s)))

\* s.replace(new RegExp(digit, 'g'), ""), digit a one-character string: every
\* occurrence of the digit removed.
RemoveAll(s, digit) == SelectSeq(s, LAMBDA c : c /= digit[1])

RECURSIVE RemoveEach(_, _)
RemoveEach(s, digits) ==
  IF digits = << >> THEN s ELSE RemoveEach(RemoveAll(s, Head(digits)), Tail(digits))

\* AvailableChars with the exclusion input ignored.
AvailableChars_ignoresExclusions(excludeAll, specific) ==
  IF excludeAll THEN Letters ELSE Letters \o Digits

\* AvailableChars with the "exclude all numbers" checkbox ignored.
AvailableChars_ignoresCheckbox(excludeAll, specific) ==
  LET excludedDigits ==
        SelectSeq(Split(specific), LAMBDA d : Len(d) = 1 /\ IsDigit(d[1]))
      numbersToInclude ==
        IF specific /= << >> THEN RemoveEach(Digits, excludedDigits) ELSE Digits
  IN  Letters \o numbersToInclude

\* The character set of generateUsername and of handleStartHunting's validation.
AvailableChars(excludeAll, specific) ==
  IF excludeAll THEN Letters
  ELSE LET excludedDigits ==
             SelectSeq(Split(specific), LAMBDA d : Len(d) = 1 /\ IsDigit(d[1]))
           numbersToInclude ==
             IF specific /= << >> THEN RemoveEach(Digits, excludedDigits) ELSE Digits
       IN  Letters \o numbersToInclude

\* chars.charAt(Math.floor(random * chars.length)) with random = k / RandomGrain;
\* charAt past the end is the empty string.
CharAtRandom(chars, k) ==
  LET idx == (k * Len(chars)) \div RandomGrain
  IN  IF idx < Len(chars) THEN << chars[idx + 1] >> ELSE << >>

RECURSIVE RandomChars(_, _, _, _)
RandomChars(chars, length, draws, i) ==
  IF i > length THEN << >>
  ELSE CharAtRandom(chars, draws[i]) \o RandomChars(chars, length, draws, i + 1)

\* The string generateUsername returns; draws[i] is the i-th Math.random().
GenerateUsername(length, excludeAll, specific, draws) ==
  LET availableChars == AvailableChars(excludeAll, specific)
  IN  IF Len(availableChars) = 0 THEN ERROR_NO_CHARS
      ELSE RandomChars(availableChars, length, draws, 1)

\* ------------------------------------------------------------------ state

VARIABLES
  usernameLength,            \* the length input, a string
  excludeNumbers,            \* the "exclude all numbers" checkbox
  specificNumbersToExclude,  \* the exclusion input, a string over 0-9 and ','
  isHunting,
  isLoading,
  isThrottled,
  stats,                     \* [attempts, available, taken]
  availableUsernames,        \* the found list
  logMessages,               \* the event sink
  abortControllerRef,        \* abortControllerRef.current: 0 is null, else a hunt
  aborted,                   \* aborted[h]: signal.aborted of hunt h's controller
  loops,                     \* loops[h]: the locals and the position of hunt h
  responses                  \* responses[h]: what the transport answered to hunt h

config == << usernameLength, excludeNumbers, specificNumbersToExclude >>

vars ==
  << usernameLength, excludeNumbers, specificNumbersToExclude, isHunting,
     isLoading, isThrottled, stats, availableUsernames, logMessages,
     abortControllerRef, aborted, loops, responses >>

\* The state a handler or a continuation reads and writes, as one record.
Store ==
  [ isHunting |-> isHunting, isLoading |-> isLoading, isThrottled |-> isThrottled,
    stats |-> stats, availableUsernames |-> availableUsernames,
    logMessages |-> logMessages, abortControllerRef |-> abortControllerRef,
    aborted |-> aborted ]

Commit(S) ==
  /\ isHunting' = S.isHunting
  /\ isLoading' = S.isLoading
  /\ isThrottled' = S.isThrottled
  /\ stats' = S.stats
  /\ availableUsernames' = S.availableUsernames
  /\ logMessages' = S.logMessages
  /\ abortControllerRef' = S.abortControllerRef
  /\ aborted' = S.aborted

\* ------------------------------------------------------------- log events

\* A log event.  text is the message with its interpolated values: the
\* username, and a number (a length or a status code) or an error message.
\* The id (crypto.randomUUID()) only keys the rendering and is left out.
LogMessage(text, type) == [ text |-> text, type |-> type ]

Text(msg, username, code, detail) ==
  [ msg |-> msg, username |-> username, code |-> code, detail |-> detail ]

addLog(S, text, type) ==
  [ S EXCEPT !.logMessages = Append(@, LogMessage(text, type)) ]

MsgStarting(length) == Text("Starting hunt for usernames of length", << >>, length, "")
MsgPausing == Text("Rate limit likely hit. Pausing for 60 seconds...", << >>, 0, "")
MsgResuming == Text("Resuming hunt...", << >>, 0, "")
MsgInternalNoChars ==
  Text("Internal Error: No characters available for username generation.", << >>, 0, "")
MsgStoppingNoChars ==
  Text("Stopping hunt: No characters available for generation", << >>, 0, "")
MsgChecking(username) == Text("Checking:", username, 0, "")
MsgAborted == Text("Hunt aborted by user.", << >>, 0, "")
MsgAvailable(username) == Text("AVAILABLE:", username, 0, "")
MsgUnexpectedStatus(status, username) == Text("Unexpected status code", username, status, "")
MsgRequestFailed(username, message) == Text("Request failed for", username, 0, message)
MsgFinished == Text("Hunt finished or stopped.", << >>, 0, "")
MsgInvalidLength == Text("Please enter a valid length", << >>, 0, "")
MsgNoCharsAtStart ==
  Text("Error: No characters available for username generation.", << >>, 0, "")
MsgSmallCharset == Text("Warning: The available character set is very small.", << >>, 0, "")
MsgStopped == Text("Hunting stopped by user.", << >>, 0, "")
MsgNothingToDownload == Text("No usernames to download.", << >>, 0, "")
MsgDownload == Text("Usernames file download initiated.", << >>, 0, "")

\* -------------------------------------------------------- the hunt loop

\* Positions of a hunt loop: the await it is suspended at, or "done".
AtFetch == "await fetch"
AtPause == "await delay (throttle pause)"
AtErrorDelay == "await delay (after an error)"
AtRequestDelay == "await delay (between checks)"
Done == "done"

\* format(new Date(), "yyyy-MM-dd HH:mm:ss"): the clock reading, kept as its format.
Timestamp == "yyyy-MM-dd HH:mm:ss"

setStats(S, L) ==
  [ S EXCEPT !.stats = [ attempts |-> L.currentAttempts,
                         available |-> L.currentAvailable,
                         taken |-> L.currentTaken ] ]

\* await delay(ms): the loop is suspended until the timer fires.
delay(L, ms, at) == [ L EXCEPT !.pc = at, !.timer = ms ]

\* The finally block of huntUsernames.
Finally(S, L) ==
  LET S1 == [ S EXCEPT !.isHunting = FALSE, !.isLoading = FALSE ]
  IN  [ S |-> IF ~S1.aborted[L.id] THEN addLog(S1, MsgFinished, "info") ELSE S1,
        L |-> [ L EXCEPT !.pc = Done, !.timer = 0 ] ]

\* One iteration from generateUsername to the call of fetch.
CheckNext(S, L, draws) ==
  LET username ==
        GenerateUsername(L.length, L.excludeNumbers, L.specificNumbersToExclude, draws)
  IN  IF username = ERROR_NO_CHARS
      THEN LET S1 == addLog(S, MsgInternalNoChars, "error")
               S2 == addLog(S1, MsgStoppingNoChars, "error")
               S3 == IF S2.abortControllerRef /= 0 /\ ~S2.aborted[S2.abortControllerRef]
                     THEN [ S2 EXCEPT !.aborted[S2.abortControllerRef] = TRUE ]
                     ELSE S2
           IN  Finally(S3, L)
      ELSE LET L1 == [ L EXCEPT !.currentAttempts = @ + 1, !.username = username ]
               S1 == addLog(S, MsgChecking(username), "muted")
           IN  [ S |-> setStats(S1, L1), L |-> [ L1 EXCEPT !.pc = AtFetch, !.timer = 0 ] ]

\* From the while condition to the first await of the iteration.
LoopTop(S, L, draws) ==
  IF S.aborted[L.id] THEN Finally(S, L)
  ELSE IF L.isThrottled
       THEN [ S |-> addLog(S, MsgPausing, "error"),
              L |-> delay(L, ThrottlePauseMs, AtPause) ]
       ELSE CheckNext(S, L, draws)

\* AfterPause without the test of signal.aborted that follows the pause.
AfterPause_noAbortTest(S, L, draws) ==
  CheckNext(addLog([ S EXCEPT !.isThrottled = FALSE ], MsgResuming, "info"), L, draws)

\* After the throttle pause.
AfterPause(S, L, draws) ==
  LET S1 == addLog([ S EXCEPT !.isThrottled = FALSE ], MsgResuming, "info")
  IN  IF S1.aborted[L.id] THEN Finally(S1, L) ELSE CheckNext(S1, L, draws)

\* What the transport can do with a request: answer with a status, or reject
\* the promise (AbortError when the signal fired, otherwise a network failure).
Statuses == { 200, 403, 404, 429, 500 }

Response(status) == [ kind |-> "response", status |-> status, name |-> "" ]
Rejection(name) == [ kind |-> "rejection", status |-> 0, name |-> name ]

\* checkUsernameAvailability with the 429 case left out of the throttled test.
checkUsernameAvailability_no429(S, username, settled) ==
  IF settled.kind = "response"
  THEN IF settled.status = 404 THEN [ S |-> S, result |-> "available" ]
       ELSE IF settled.status = 200 THEN [ S |-> S, result |-> "taken" ]
       ELSE IF settled.status = 403 THEN [ S |-> S, result |-> "throttled" ]
       ELSE [ S |-> addLog(S, MsgUnexpectedStatus(settled.status, username), "error"),
              result |-> "error" ]
  ELSE IF settled.name = "AbortError" THEN [ S |-> S, result |-> "aborted" ]
       ELSE [ S |-> addLog(S, MsgRequestFailed(username, settled.name), "error"),
              result |-> "error" ]

\* checkUsernameAvailability: the result and the log it leaves.
checkUsernameAvailability(S, username, settled) ==
  IF settled.kind = "response"
  THEN IF settled.status = 404 THEN [ S |-> S, result |-> "available" ]
       ELSE IF settled.status = 200 THEN [ S |-> S, result |-> "taken" ]
       ELSE IF settled.status = 403 \/ settled.status = 429
            THEN [ S |-> S, result |-> "throttled" ]
       ELSE [ S |-> addLog(S, MsgUnexpectedStatus(settled.status, username), "error"),
              result |-> "error" ]
  ELSE IF settled.name = "AbortError" THEN [ S |-> S, result |-> "aborted" ]
       ELSE [ S |-> addLog(S, MsgRequestFailed(username, settled.name), "error"),
              result |-> "error" ]

\* AfterCheck without the test of signal.aborted that follows the check.
AfterCheck_noAbortTest(S, L, result) ==
  IF result = "available"
  THEN LET L1 == [ L EXCEPT !.currentAvailable = @ + 1 ]
           S1 == [ S EXCEPT !.availableUsernames =
                     Append(@, [ username |-> L.username, timestamp |-> Timestamp ]) ]
           S2 == addLog(S1, MsgAvailable(L.username), "accent")
       IN  [ S |-> setStats(S2, L1), L |-> delay(L1, RequestDelayMs, AtRequestDelay) ]
  ELSE IF result = "taken"
       THEN LET L1 == [ L EXCEPT !.currentTaken = @ + 1 ]
            IN  [ S |-> setStats(S, L1), L |-> delay(L1, RequestDelayMs, AtRequestDelay) ]
  ELSE IF result = "throttled"
       THEN [ S |-> setStats([ S EXCEPT !.isThrottled = TRUE ], L),
              L |-> delay(L, RequestDelayMs, AtRequestDelay) ]
  ELSE IF result = "error"
       THEN [ S |-> S, L |-> delay(L, ErrorDelayMs, AtErrorDelay) ]
  ELSE [ S |-> setStats(S, L), L |-> delay(L, RequestDelayMs, AtRequestDelay) ]

\* From the result of the check to the next await.
AfterCheck(S, L, result) ==
  IF S.aborted[L.id] THEN Finally(addLog(S, MsgAborted, "info"), L)
  ELSE IF result = "available"
       THEN LET L1 == [ L EXCEPT !.currentAvailable = @ + 1 ]
                S1 == [ S EXCEPT !.availableUsernames =
                          Append(@, [ username |-> L.username, timestamp |-> Timestamp ]) ]
                S2 == addLog(S1, MsgAvailable(L.username), "accent")
            IN  [ S |-> setStats(S2, L1), L |-> delay(L1, RequestDelayMs, AtRequestDelay) ]
  ELSE IF result = "taken"
       THEN LET L1 == [ L EXCEPT !.currentTaken = @ + 1 ]
            IN  [ S |-> setStats(S, L1), L |-> delay(L1, RequestDelayMs, AtRequestDelay) ]
  ELSE IF result = "throttled"
       THEN [ S |-> setStats([ S EXCEPT !.isThrottled = TRUE ], L),
              L |-> delay(L, RequestDelayMs, AtRequestDelay) ]
  ELSE IF result = "error"
       THEN [ S |-> S, L |-> delay(L, ErrorDelayMs, AtErrorDelay) ]
  ELSE [ S |-> setStats(S, L), L |-> delay(L, RequestDelayMs, AtRequestDelay) ]

\* AfterErrorDelay that gives the hunt up after the error.
AfterErrorDelay_exits(S, L) == Finally(S, L)

\* After the delay that follows an error.
AfterErrorDelay(S, L) ==
  [ S |-> setStats(S, L), L |-> delay(L, RequestDelayMs, AtRequestDelay) ]

\* huntUsernames that also empties the found list when it empties the log.
huntUsernames_clearsFound(S, length, draws) ==
  LET id == Len(loops) + 1
      S1 == [ S EXCEPT !.isLoading = TRUE, !.isHunting = TRUE, !.logMessages = << >>,
                       !.availableUsernames = << >>,
                       !.stats = [ attempts |-> 0, available |-> 0, taken |-> 0 ] ]
      S2 == addLog(S1, MsgStarting(length), "info")
      S3 == [ S2 EXCEPT !.abortControllerRef = id, !.aborted = Append(@, FALSE) ]
      L == [ id |-> id, pc |-> Done, timer |-> 0, length |-> length,
             isThrottled |-> isThrottled, excludeNumbers |-> excludeNumbers,
             specificNumbersToExclude |-> specificNumbersToExclude,
             currentAttempts |-> 0, currentAvailable |-> 0, currentTaken |-> 0,
             username |-> << >> ]
  IN  LoopTop(S3, L, draws)

\* huntUsernames(length) up to its first await, in the render it is called from.
huntUsernames(S, length, draws) ==
  LET id == Len(loops) + 1
      S1 == [ S EXCEPT !.isLoading = TRUE, !.isHunting = TRUE, !.logMessages = << >>,
                       !.stats = [ attempts |-> 0, available |-> 0, taken |-> 0 ] ]
      S2 == addLog(S1, MsgStarting(length), "info")
      S3 == [ S2 EXCEPT !.abortControllerRef = id, !.aborted = Append(@, FALSE) ]
      L == [ id |-> id, pc |-> Done, timer |-> 0, length |-> length,
             isThrottled |-> isThrottled, excludeNumbers |-> excludeNumbers,
             specificNumbersToExclude |-> specificNumbersToExclude,
             currentAttempts |-> 0, currentAvailable |-> 0, currentTaken |-> 0,
             username |-> << >> ]
  IN  LoopTop(S3, L, draws)

\* ------------------------------------------------------------ handlers

\* handleStartHunting: the hunt it starts, or the error it logs.
handleStartHunting(S, draws) ==
  LET len == ParseInt(usernameLength)
      availableChars == AvailableChars(excludeNumbers, specificNumbersToExclude)
  IN  IF isNaN(len) \/ Less(len, USER_INPUT_MIN_LENGTH) \/ Greater(len, MAX_USERNAME_LENGTH)
      THEN [ started |-> FALSE, S |-> addLog(S, MsgInvalidLength, "error") ]
      ELSE IF Len(availableChars) = 0
      THEN [ started |-> FALSE, S |-> addLog(S, MsgNoCharsAtStart, "error") ]
      ELSE LET S1 == IF len.value > 0 /\ Len(availableChars) < 2 /\ len.value > 1
                     THEN addLog(S, MsgSmallCharset, "info")
                     ELSE S
               hunt == huntUsernames(S1, len.value, draws)
           IN  [ started |-> TRUE, S |-> hunt.S, L |-> hunt.L ]

\* handleStopHunting without setIsThrottled(false).
handleStopHunting_keepsThrottle(S) ==
  LET S1 == IF S.abortControllerRef /= 0
            THEN [ S EXCEPT !.aborted[S.abortControllerRef] = TRUE ]
            ELSE S
      S2 == [ S1 EXCEPT !.isHunting = FALSE, !.isLoading = FALSE ]
  IN  addLog(S2, MsgStopped, "info")

handleStopHunting(S) ==
  LET S1 == IF S.abortControllerRef /= 0
            THEN [ S EXCEPT !.aborted[S.abortControllerRef] = TRUE ]
            ELSE S
      S2 == [ S1 EXCEPT !.isHunting = FALSE, !.isLoading = FALSE, !.isThrottled = FALSE ]
  IN  addLog(S2, MsgStopped, "info")

handleDownloadUsernames(S) ==
  IF Len(S.availableUsernames) = 0 THEN addLog(S, MsgNothingToDownload, "error")
  ELSE addLog(S, MsgDownload, "success")

\* What the user can type into the length input (type="number").
LengthInputs ==
  { << >>, << "2" >>, << "3" >>, << "3", "9" >>, << "4", "0" >>, << "3", ".", "5" >>,
    << "-", "3" >> }

\* What the user can type into the exclusion input, before its onChange filter.
SpecificInputs == { << >>, << "1" >>, << "1", ",", " ", "3" >>, << "1", "3" >> }

\* e.target.value.replace(/[^0-9,]/g, '')
Sanitize(raw) == SelectSeq(raw, LAMBDA c : IsDigit(c) \/ c = ",")

\* -------------------------------------------------------------- actions

\* The inputs are disabled while isHunting or isLoading.
SetUsernameLength ==
  /\ ~(isHunting \/ isLoading)
  /\ \E v \in LengthInputs : v /= usernameLength /\ usernameLength' = v
  /\ UNCHANGED << excludeNumbers, specificNumbersToExclude, isHunting, isLoading,
                  isThrottled, stats, availableUsernames, logMessages,
                  abortControllerRef, aborted, loops, responses >>

SetExcludeNumbers ==
  /\ ~(isHunting \/ isLoading)
  /\ excludeNumbers' = ~excludeNumbers
  /\ UNCHANGED << usernameLength, specificNumbersToExclude, isHunting, isLoading,
                  isThrottled, stats, availableUsernames, logMessages,
                  abortControllerRef, aborted, loops, responses >>

SetSpecificNumbersToExclude ==
  /\ ~(isHunting \/ isLoading \/ excludeNumbers)
  /\ \E raw \in SpecificInputs :
       /\ Sanitize(raw) /= specificNumbersToExclude
       /\ specificNumbersToExclude' = Sanitize(raw)
  /\ UNCHANGED << usernameLength, excludeNumbers, isHunting, isLoading,
                  isThrottled, stats, availableUsernames, logMessages,
                  abortControllerRef, aborted, loops, responses >>

\* The remote checks the hunts ls have issued.
RECURSIVE ChecksIssued(_)
ChecksIssued(ls) ==
  IF ls = << >> THEN 0 ELSE Head(ls).currentAttempts + ChecksIssued(Tail(ls))

\* The random source the hunts are run against: a stream that cycles through
\* the sample points, so that successive usernames differ.
RandomDraws(length) ==
  [ i \in 1 .. length |-> (ChecksIssued(loops) + i) % RandomGrain ]

\* A continuation of hunt h has run and left the loop as r.L and the state as r.S.
Resume(h, r) ==
  /\ Commit(r.S)
  /\ loops' = [ loops EXCEPT ![h] = r.L ]
  /\ ChecksIssued(loops') <= MaxChecks

\* The continuation of hunt h after its request settled, run on state S.
Settle(h, S, settled) ==
  LET c == checkUsernameAvailability(S, loops[h].username, settled)
  IN  /\ Resume(h, AfterCheck(c.S, loops[h], c.result))
      /\ responses' = [ responses EXCEPT ![h] =
                          Append(@, [ username |-> loops[h].username,
                                      settled |-> settled ]) ]

\* The button shows "Start Hunting" when not isHunting and is disabled while isLoading.
StartOffered == ~isHunting /\ ~isLoading

\* The length handleStartHunting passes on, which is the number of characters
\* generateUsername draws.
ParsedLength ==
  LET len == ParseInt(usernameLength)
  IN  IF isNaN(len) \/ len.value < 0 THEN 0 ELSE len.value

\* A press of Start with draws as the values Math.random() returns.
StartHunt(draws) ==
  LET r == handleStartHunting(Store, draws)
  IN  /\ Commit(r.S)
      /\ IF r.started
         THEN /\ Len(loops) < MaxStarts
              /\ loops' = Append(loops, r.L)
              /\ ChecksIssued(loops') <= MaxChecks
              /\ responses' = Append(responses, << >>)
         ELSE /\ Len(logMessages) < MaxLog
              /\ UNCHANGED << loops, responses >>

ClickStart ==
  /\ StartOffered
  /\ StartHunt(RandomDraws(ParsedLength))
  /\ UNCHANGED config

\* The stop button rendered whatever isHunting is.
StopOffered_always == TRUE

\* The button shows "Stop Hunting" while isHunting.
StopOffered == isHunting

\* abort() rejects the pending fetch of the hunt with AbortError at once, and
\* the continuation of that hunt runs as a microtask when the handler returns,
\* before any other event: it is part of the step.

ClickStop ==
  /\ StopOffered
  /\ LET S1 == handleStopHunting(Store)
         h == abortControllerRef
     IN  IF h /= 0 /\ loops[h].pc = AtFetch
         THEN Settle(h, S1, Rejection("AbortError"))
         ELSE Commit(S1) /\ UNCHANGED << loops, responses >>
  /\ UNCHANGED config

\* The Download button is rendered while the found list is not empty.
DownloadOffered == Len(availableUsernames) > 0

ClickDownload ==
  /\ DownloadOffered
  /\ Len(logMessages) < MaxLog
  /\ Commit(handleDownloadUsernames(Store))
  /\ UNCHANGED << config, loops, responses >>

\* The request of hunt h is answered or fails in the network.
Settlements == { Response(s) : s \in Statuses } \cup { Rejection("TypeError") }

FetchSettles(h) ==
  /\ loops[h].pc = AtFetch
  /\ \E settled \in Settlements : Settle(h, Store, settled)
  /\ UNCHANGED config

PauseElapses(h) ==
  /\ loops[h].pc = AtPause
  /\ Resume(h, AfterPause(Store, loops[h], RandomDraws(loops[h].length)))
  /\ UNCHANGED << config, responses >>

ErrorDelayElapses(h) ==
  /\ loops[h].pc = AtErrorDelay
  /\ Resume(h, AfterErrorDelay(Store, loops[h]))
  /\ UNCHANGED << config, responses >>

RequestDelayElapses(h) ==
  /\ loops[h].pc = AtRequestDelay
  /\ Resume(h, LoopTop(Store, loops[h], RandomDraws(loops[h].length)))
  /\ UNCHANGED << config, responses >>

Hunts == 1 .. Len(loops)

Init ==
  /\ usernameLength = << "3" >>
  /\ excludeNumbers = FALSE
  /\ specificNumbersToExclude = << >>
  /\ isHunting = FALSE
  /\ isLoading = FALSE
  /\ isThrottled = FALSE
  /\ stats = [ attempts |-> 0, available |-> 0, taken |-> 0 ]
  /\ availableUsernames = << >>
  /\ logMessages = << >>
  /\ abortControllerRef = 0
  /\ aborted = << >>
  /\ loops = << >>
  /\ responses = << >>

\* The page with its configuration left as it is first rendered.
Next ==
  \/ ClickStart
  \/ ClickStop
  \/ ClickDownload
  \/ \E h \in Hunts : FetchSettles(h)
  \/ \E h \in Hunts : PauseElapses(h)
  \/ \E h \in Hunts : ErrorDelayElapses(h)
  \/ \E h \in Hunts : RequestDelayElapses(h)

Spec == Init /\ [][Next]_vars

\* The configuration inputs and the hunt started from them: one hunt, followed
\* through its first check.  Within these bounds no hunt starts throttled and
\* the log is full before a download is offered.
MaxConfigStarts == 1
MaxConfigChecks == 1

ConfigBound ==
  /\ Len(loops') <= MaxConfigStarts
  /\ ChecksIssued(loops') <= MaxConfigChecks

NextConfig ==
  \/ SetUsernameLength
  \/ SetExcludeNumbers
  \/ SetSpecificNumbersToExclude
  \/ ClickStart /\ ConfigBound
  \/ ClickStop
  \/ \E h \in Hunts : FetchSettles(h)
  \/ \E h \in Hunts : ErrorDelayElapses(h)
  \/ \E h \in Hunts : RequestDelayElapses(h) /\ ConfigBound

SpecConfig == Init /\ [][NextConfig]_vars

\* generateUsername against every value of the random source: the page with a
\* valid configuration already typed in, and the first candidate of the hunt
\* started from it.
GeneratorLengths == { << "3" >>, << "4" >> }

AllTenDigits ==
  << "0", ",", "1", ",", "2", ",", "3", ",", "4", ",", "5", ",", "6", ",", "7", ",",
     "8", ",", "9" >>

GeneratorExclusions ==
  { Sanitize(raw) : raw \in SpecificInputs }
    \cup { << "5", ",", "3", ",", "1" >>, AllTenDigits }

InitGenerator ==
  /\ usernameLength \in GeneratorLengths
  /\ excludeNumbers \in BOOLEAN
  /\ specificNumbersToExclude \in GeneratorExclusions
  /\ isHunting = FALSE
  /\ isLoading = FALSE
  /\ isThrottled = FALSE
  /\ stats = [ attempts |-> 0, available |-> 0, taken |-> 0 ]
  /\ availableUsernames = << >>
  /\ logMessages = << >>
  /\ abortControllerRef = 0
  /\ aborted = << >>
  /\ loops = << >>
  /\ responses = << >>

ClickStartAnyDraws ==
  /\ StartOffered
  /\ \E draws \in [ 1 .. ParsedLength -> 0 .. RandomGrain - 1 ] : StartHunt(draws)
  /\ UNCHANGED config

NextGenerator == ClickStartAnyDraws

SpecGenerator == InitGenerator /\ [][NextGenerator]_vars

\* The page with its timers firing and its requests settling: setTimeout
\* callbacks run once their time has passed and the transport settles every
\* request, for each hunt.
HuntIds == 1 .. MaxStarts

Fairness ==
  \A h \in HuntIds :
    /\ WF_vars(h \in Hunts /\ FetchSettles(h))
    /\ WF_vars(h \in Hunts /\ PauseElapses(h))
    /\ WF_vars(h \in Hunts /\ ErrorDelayElapses(h))
    /\ WF_vars(h \in Hunts /\ RequestDelayElapses(h))

FairSpec == Spec /\ Fairness

\* -------------------------------------------------------------- claims

Last(s) == s[Len(s)]

\* The outcome the contract gives a settled request.
ClaimedOutcome(settled) ==
  IF settled.kind = "response" /\ settled.status = 404 THEN "Available"
  ELSE IF settled.kind = "response" /\ settled.status = 200 THEN "Taken"
  ELSE IF settled.kind = "response" /\ settled.status \in { 403, 429 } THEN "Throttled"
  ELSE IF settled.kind = "rejection" /\ settled.name = "AbortError" THEN "Aborted"
  ELSE "TransientError"

\* The answers to hunt h that the contract classifies as outcome o, in order.
Outcomes(h, o) ==
  SelectSeq(responses[h], LAMBDA r : ClaimedOutcome(r.settled) = o)

Usernames(entries) == [ i \in 1 .. Len(entries) |-> entries[i].username ]

EventsOfType(log, type) == SelectSeq(log, LAMBDA m : m.type = type)

\* C1: a hunt that is not cancelled counts its responses as the contract
\* classifies them: attempts is the number of checks issued (answered or in
\* flight), currentAvailable the number of 404 and currentTaken the number of
\* 200; and while it is the only hunt, the stats shown are its counters, the
\* found list holds the usernames answered 404 in response order, isThrottled
\* is set exactly when a 403 or 429 was answered, and one error event was
\* logged per other status or transport failure.
C1_CountersMatchResponses ==
  \A h \in Hunts :
    ~aborted[h] =>
      LET L == loops[h]
      IN  /\ L.currentAttempts = Len(responses[h]) + (IF L.pc = AtFetch THEN 1 ELSE 0)
          /\ L.currentAvailable = Len(Outcomes(h, "Available"))
          /\ L.currentTaken = Len(Outcomes(h, "Taken"))
          /\ L.pc = AtErrorDelay =>
               ClaimedOutcome(Last(responses[h]).settled) = "TransientError"
          /\ Len(loops) = 1 =>
               /\ stats = [ attempts |-> L.currentAttempts,
                            available |-> L.currentAvailable,
                            taken |-> L.currentTaken ]
               /\ Usernames(availableUsernames) = Usernames(Outcomes(h, "Available"))
               /\ isThrottled <=> Outcomes(h, "Throttled") /= << >>
               /\ Len(EventsOfType(logMessages, "error"))
                    = Len(Outcomes(h, "TransientError"))

\* A single hunt that was answered 404, 200 and 429, and is between checks.
C1_Witness ==
  /\ Len(loops) = 1
  /\ ~aborted[1]
  /\ loops[1].pc = AtRequestDelay
  /\ Len(responses[1]) = 3
  /\ responses[1][1].settled = Response(404)
  /\ responses[1][2].settled = Response(200)
  /\ responses[1][3].settled = Response(429)
  /\ Len(availableUsernames) = 1

IssuesCheck(h) == loops'[h].currentAttempts > loops[h].currentAttempts

\* C2: a hunt whose last check was classified Throttled issues its next check
\* only from the end of the 60000 ms pause.
C2_PauseBeforeNextCheck ==
  [][ \A h \in Hunts :
        ( /\ IssuesCheck(h)
          /\ responses[h] /= << >>
          /\ ClaimedOutcome(Last(responses[h]).settled) = "Throttled" )
        => loops[h].pc = AtPause /\ loops[h].timer = ThrottlePauseMs ]_vars

\* C3: from the step in which its signal fires, a hunt issues no further
\* check: each of its continuations exits the loop, except that the one after
\* the error delay first passes the delay between checks.
C3_NoCheckAfterCancel ==
  [][ \A h \in Hunts :
        aborted'[h] =>
          \/ loops'[h] = loops[h]
          \/ /\ ~IssuesCheck(h)
             /\ \/ loops'[h].pc = Done
                \/ loops[h].pc = AtErrorDelay /\ loops'[h].pc = AtRequestDelay ]_vars

\* A hunt cancelled during its throttle pause has exited without a check.
C3_Witness ==
  \E h \in Hunts :
    /\ aborted[h]
    /\ loops[h].pc = Done
    /\ loops[h].isThrottled
    /\ loops[h].currentAttempts = 0

Counters(L) == << L.currentAttempts, L.currentAvailable, L.currentTaken >>

\* C4: when the signal of a hunt fires while its check is in flight, the
\* hunt exits in that step, its counters, the stats and the found list are
\* left as they were, and no AVAILABLE event is logged.
C4_InFlightOutcomeDropped ==
  [][ \A h \in Hunts :
        (loops[h].pc = AtFetch /\ aborted'[h])
        => /\ loops'[h].pc = Done
           /\ Counters(loops'[h]) = Counters(loops[h])
           /\ stats' = stats
           /\ availableUsernames' = availableUsernames
           /\ Len(logMessages') > Len(logMessages)
           /\ \A i \in Len(logMessages) + 1 .. Len(logMessages') :
                logMessages'[i].type /= "accent" ]_vars

\* A hunt was cancelled with its second check in flight and has exited with
\* the counters of its first.
C4_Witness ==
  \E h \in Hunts :
    /\ aborted[h]
    /\ loops[h].pc = Done
    /\ Len(responses[h]) = 2
    /\ responses[h][1].settled = Response(404)
    /\ responses[h][2].settled = Rejection("AbortError")
    /\ Counters(loops[h]) = << 2, 1, 0 >>
    /\ Last(logMessages).text = MsgAborted

\* The hunts that can still issue a check.
LiveHunts == { h \in Hunts : ~aborted[h] /\ loops[h].pc /= Done }

\* C5: at most one hunt loop can issue checks and at most one check of such a
\* loop is outstanding.
C5_OneCheckInFlight ==
  /\ Cardinality(LiveHunts) <= 1
  /\ Cardinality({ h \in LiveHunts : loops[h].pc = AtFetch }) <= 1

StoppedEvents(log) == Len(SelectSeq(log, LAMBDA m : m.text = MsgStopped))

C7_StatsNeverDecrease ==
  [][ Len(loops') = Len(loops)
        => /\ stats'.attempts >= stats.attempts
           /\ stats'.available >= stats.available
           /\ stats'.taken >= stats.taken ]_vars

\* C8: every step keeps the found list as a prefix of the new one, and the
\* start of a hunt leaves it unchanged while it empties the log down to the
\* "starting" event and what the first iteration logs, and zeroes the stats
\* apart from the first attempt.
C8_FoundAppendOnly ==
  [][ /\ Len(availableUsernames') >= Len(availableUsernames)
      /\ SubSeq(availableUsernames', 1, Len(availableUsernames)) = availableUsernames
      /\ Len(loops') > Len(loops)
           => /\ availableUsernames' = availableUsernames
              /\ stats'.available = 0 /\ stats'.taken = 0 /\ stats'.attempts <= 1
              /\ Len(logMessages') = 2
              /\ logMessages'[1].text.msg = "Starting hunt for usernames of length" ]_vars

\* A second hunt has been started over a found list that is not empty, and
\* the list has been downloaded.
C8_Witness ==
  /\ Len(loops) >= 2
  /\ Len(availableUsernames) >= 1
  /\ loops[1].currentAvailable >= 1
  /\ \E i \in 1 .. Len(logMessages) : logMessages[i].text = MsgDownload

\* The length input denotes an integer in [3, 39].
IsIntegerInRange(s) ==
  /\ s /= << >>
  /\ \A i \in 1 .. Len(s) : IsDigit(s[i])
  /\ DecimalValue(0, s) >= USER_INPUT_MIN_LENGTH
  /\ DecimalValue(0, s) <= MAX_USERNAME_LENGTH

\* C9: a press of start while the length input does not denote an integer in
\* [3, 39] creates no loop, logs one error event, and leaves the stats, the
\* found list, the hunting flag and the controllers unchanged.
C9_InvalidLengthRefused ==
  [][ (ClickStart /\ ~IsIntegerInRange(usernameLength))
        => /\ loops' = loops
           /\ logMessages' = Append(logMessages, LogMessage(MsgInvalidLength, "error"))
           /\ stats' = stats
           /\ availableUsernames' = availableUsernames
           /\ isHunting' = isHunting
           /\ abortControllerRef' = abortControllerRef
           /\ aborted' = aborted ]_vars

\* The digits the exclusion input lists: those standing alone between commas.
ListedDigits(specific) ==
  { specific[i] : i \in { j \in 1 .. Len(specific) :
        /\ IsDigit(specific[j])
        /\ j = 1 \/ specific[j - 1] = ","
        /\ j = Len(specific) \/ specific[j + 1] = "," } }

\* The alphabet the contract derives: the 26 letters and, unless all digits
\* are excluded, the digits that are not listed.
DerivedAlphabet(excludeAll, specific) ==
  Range(Letters)
    \cup (IF excludeAll THEN { } ELSE Range(Digits) \ ListedDigits(specific))

\* The hunts that have generated a candidate.
Generated == { h \in Hunts : loops[h].currentAttempts >= 1 }

\* C11: for a valid configuration and every value of the random source, the
\* candidate generateUsername returns has exactly `length` characters, each
\* one a letter or, when digits are not all excluded, a digit that is not
\* listed in the exclusion input.
C11_GenerateLengthAndAlphabet ==
  \A h \in Generated :
    LET L == loops[h]
    IN  /\ L.length = DecimalValue(0, usernameLength)
        /\ Len(L.username) = L.length
        /\ Range(L.username)
             \subseteq DerivedAlphabet(L.excludeNumbers, L.specificNumbersToExclude)

\* A candidate of length 4 that holds a digit, generated with 1, 3 and 5
\* excluded.
C11_Witness ==
  \E h \in Generated :
    /\ loops[h].length = 4
    /\ ~loops[h].excludeNumbers
    /\ ListedDigits(loops[h].specificNumbersToExclude) = { "1", "3", "5" }
    /\ \E i \in 1 .. 4 : IsDigit(loops[h].username[i])

\* C12: a candidate generated with "exclude all numbers" checked holds no
\* digit, whatever the exclusion input lists.
C12_ExcludeAllMeansNoDigit ==
  \A h \in Generated :
    loops[h].excludeNumbers =>
      \A i \in 1 .. Len(loops[h].username) : ~IsDigit(loops[h].username[i])

\* A candidate was generated with all digits excluded while the exclusion
\* input lists only some of them.
C12_Witness ==
  \E h \in Generated :
    /\ loops[h].excludeNumbers
    /\ ListedDigits(loops[h].specificNumbersToExclude) = { "1", "3" }
    /\ Len(loops[h].username) = loops[h].length

ResumingEvents(log) == Len(SelectSeq(log, LAMBDA m : m.text = MsgResuming))

\* C13: the continuation of a hunt whose signal fired during its throttle
\* pause exits the loop and adds no "resuming" event to the log.
C13_NoResumeAfterCancel ==
  [][ \A h \in Hunts :
        (loops[h].pc = AtPause /\ aborted[h] /\ loops'[h] /= loops[h])
        => /\ loops'[h].pc = Done
           /\ ResumingEvents(logMessages') <= ResumingEvents(logMessages) ]_vars

\* The events a step adds to the log, when it does not empty it.
Added == SubSeq(logMessages', Len(logMessages) + 1, Len(logMessages'))

C15_ErrorsAbsorbed ==
  [][ \A h \in Hunts :
        LET L == loops[h]
            M == loops'[h]
        IN  /\ Len(responses'[h]) > Len(responses[h])
                 => LET o == ClaimedOutcome(Last(responses'[h]).settled)
                    IN  /\ o = "TransientError"
                             => /\ M.pc = AtErrorDelay /\ M.timer = ErrorDelayMs
                                /\ Counters(M) = Counters(L)
                                /\ Len(Added) = 1 /\ Added[1].type = "error"
                        /\ o = "Throttled"
                             => /\ M.pc = AtRequestDelay /\ M.timer = RequestDelayMs
                                /\ Counters(M) = Counters(L)
                                /\ isThrottled'
            /\ (L.pc = AtErrorDelay /\ M /= L)
                 => M.pc = AtRequestDelay /\ M.timer = RequestDelayMs
            /\ (L.pc = AtRequestDelay /\ ~aborted[h] /\ M /= L)
                 => IF L.isThrottled
                    THEN M.pc = AtPause /\ M.timer = ThrottlePauseMs
                    ELSE M.pc = AtFetch /\ IssuesCheck(h)
            /\ (L.pc = AtPause /\ ~aborted[h] /\ M /= L)
                 => M.pc = AtFetch /\ IssuesCheck(h) ]_vars

\* A hunt has absorbed an unexpected status and a network failure and has its
\* third check in flight.
C15_Witness ==
  \E h \in Hunts :
    /\ ~aborted[h]
    /\ Len(responses[h]) = 2
    /\ responses[h][1].settled = Response(500)
    /\ responses[h][2].settled = Rejection("TypeError")
    /\ loops[h].pc = AtFetch
    /\ loops[h].currentAttempts = 3
    /\ Len(EventsOfType(logMessages, "error")) = 2

\* Every hunt whose signal has fired eventually exits.
CancelledExits ==
  \A h \in HuntIds : (h \in Hunts /\ aborted[h]) ~> (h \in Hunts /\ loops[h].pc = Done)

\* The continuation that resumes a cancelled hunt exits the loop.
ExitsAtFirstCheckpoint ==
  [][ \A h \in Hunts :
        (aborted'[h] /\ loops'[h] /= loops[h]) => loops'[h].pc = Done ]_vars

\* C17: with timers firing and requests settling, every hunt whose signal
\* has fired eventually exits, and it exits in the first continuation that
\* runs after the signal fired.
C17_CancelTakesEffect == CancelledExits /\ ExitsAtFirstCheckpoint

\* The last answer to hunt h was classified Taken.
LastTaken(h) ==
  responses[h] /= << >> /\ ClaimedOutcome(Last(responses[h]).settled) = "Taken"

\* C18: the step that classifies a check as Taken adds one to currentTaken
\* and nothing to the log, and leaves currentAvailable and the found list; the
\* next continuation of that hunt, when it is not cancelled, adds the
\* "checking" event of the next candidate and no other event.
C18_TakenIsSilent ==
  [][ \A h \in Hunts :
        /\ (Len(responses'[h]) > Len(responses[h])
               /\ ClaimedOutcome(Last(responses'[h]).settled) = "Taken")
             => /\ loops'[h].currentTaken = loops[h].currentTaken + 1
                /\ loops'[h].currentAvailable = loops[h].currentAvailable
                /\ loops'[h].currentAttempts = loops[h].currentAttempts
                /\ logMessages' = logMessages
                /\ availableUsernames' = availableUsernames
        /\ (LastTaken(h) /\ loops[h].pc = AtRequestDelay /\ ~aborted[h]
               /\ loops'[h] /= loops[h])
             => /\ Added = << LogMessage(MsgChecking(loops'[h].username), "muted") >>
                /\ loops'[h].currentTaken = loops[h].currentTaken
                /\ loops'[h].currentAvailable = loops[h].currentAvailable
                /\ availableUsernames' = availableUsernames ]_vars

\* C19: abortControllerRef.current is the controller of every hunt whose
\* signal has not fired, so that one press of Stop cancels every loop that can
\* still issue checks.
C19_LiveLoopCancellable ==
  \A h \in Hunts : ~aborted[h] => abortControllerRef = h

\* C20: while there is a hunt whose signal has not fired, isHunting is true
\* and Start is not offered.
C20_HuntingFlagAgrees ==
  (\E h \in Hunts : ~aborted[h]) => (isHunting /\ ~StartOffered)

====
